---- MODULE Spec2Model ----
(***************************************************************************)
(* Model of the homework status bot (homework.py): the startup check of    *)
(* the credentials and the poll / parse / notify / sleep loop of main().   *)
(*                                                                         *)
(* The Russian message templates of the source are transliterated to      *)
(* ASCII; every template keeps its placeholders and its punctuation, so    *)
(* two texts are equal in the model exactly when they are equal in the     *)
(* program.                                                                *)
(***************************************************************************)
EXTENDS Integers, Sequences, FiniteSets, TLC

\* Largest value of the clock and of the current_date field of a response.
MaxDate == 1

RETRY_PERIOD == 600

Dates == 0..MaxDate

\* The set S with its elements enumerated once, when the definition is read.
Enumerated(S) == {x : x \in S}

\* Python's None, as the value of a variable or of dict.get on a missing key.
None == "<None>"
\* An integer variable that holds no date (current_date missing, no fetch yet).
NoDate == -1

(***************************************************************************)
(* Environment variables: unset (os.getenv gives None), empty, or set.     *)
(***************************************************************************)
EnvValues == {None, "", "tok"}

\* Python truthiness of an os.getenv result.
Truthy(value) == value # None /\ value # ""

PRACTICUM_TOKEN_NAME == "PRACTICUM_TOKEN"
TELEGRAM_TOKEN_NAME == "TELEGRAM_TOKEN"
TELEGRAM_CHAT_ID_NAME == "TELEGRAM_CHAT_ID"
TokenNames == {PRACTICUM_TOKEN_NAME, TELEGRAM_TOKEN_NAME, TELEGRAM_CHAT_ID_NAME}

ENDPOINT == "https://practicum.yandex.ru/api/user_api/homework_statuses/"

\* str(HEADERS): the dict {'Authorization': f'OAuth {PRACTICUM_TOKEN}'}.
HEADERS(token) ==
    "{'Authorization': 'OAuth " \o (IF token = None THEN "None" ELSE token) \o "'}"

HOMEWORK_VERDICTS ==
    [approved |-> "Rabota proverena: revyueru vsyo ponravilos. Ura!",
     reviewing |-> "Rabota vzyata na proverku revyuerom.",
     rejected |-> "Rabota proverena: u revyuera est zamechaniya."]

VerdictCodes == DOMAIN HOMEWORK_VERDICTS

STATUS_CHANGE_MESSAGE(homework_name, status) ==
    "Izmenilsya status proverki raboty \"" \o homework_name \o "\". " \o status

API_ERROR_MESSAGE(error, status_code, headers, timestamp) ==
    "Sboy v rabote programmy: " \o error \o ". "
    \o "Endpoint: " \o ENDPOINT \o ". "
    \o "Kod otveta API: " \o status_code \o ". "
    \o "Headers: " \o headers \o ", "
    \o "params: \"from_date\": " \o ToString(timestamp) \o "."

\* The f-string of the last except clause of main().
PROGRAM_FAILURE_MESSAGE(error) == "Sboy v rabote programmy: " \o error

(***************************************************************************)
(* Exceptions: a class name and the text str() gives.                      *)
(***************************************************************************)
NoException == [raised |-> FALSE, cls |-> "none", text |-> ""]

Raise(cls, text) == [raised |-> TRUE, cls |-> cls, text |-> text]

\* str(KeyError(msg)) is repr(msg): the message in single quotes.
KeyErrorText(msg) == "'" \o msg \o "'"

\* The classes named by the first except clause of main().
ListedClasses ==
    {"ApiError", "AuthenticationError", "HTTPError", "KeyError",
     "RequestException", "TypeError", "ValueError"}

\* Direct base classes, below Exception, of the classes that can be raised.
Bases(cls) ==
    CASE cls = "HTTPError" -> {"RequestException"}
      [] cls = "JSONDecodeError" -> {"ValueError", "RequestException"}
      [] OTHER -> {}

\* isinstance(e, one of the listed classes).
IsListed(cls) == cls \in ListedClasses \/ Bases(cls) \cap ListedClasses # {}

(***************************************************************************)
(* The JSON values the API can answer with.  A dict is a set of present    *)
(* keys and a value for each; the value of a key that is not present is    *)
(* never read.                                                             *)
(***************************************************************************)
HomeworkKeys == {"status", "homework_name"}

StatusValues == Enumerated(VerdictCodes \cup {"unknown_code"})

NameValues == {"HW1"}

Homework(keys, status, homework_name) ==
    [keys |-> keys,
     status |-> IF "status" \in keys THEN status ELSE None,
     homework_name |-> IF "homework_name" \in keys THEN homework_name ELSE None]

Homeworks ==
    {Homework(keys, status, homework_name) :
        keys \in SUBSET HomeworkKeys,
        status \in StatusValues,
        homework_name \in NameValues}

\* An older record behind the newest one; only index 0 is ever read.
OlderHomework == Homework(HomeworkKeys, "approved", "HW0")

HomeworkLists ==
    Enumerated({<<>>} \cup {<<h>> : h \in Homeworks}
               \cup {<<h, OlderHomework>> : h \in Homeworks})

\* The value under "homeworks": a list of records, or something that is not a list.
NotAList == [list |-> FALSE, items |-> <<>>]

HomeworksValues ==
    Enumerated({NotAList} \cup {[list |-> TRUE, items |-> l] : l \in HomeworkLists})

\* The value under "error": a string, or a dict {"error": text}.
ErrorString(text) == [dict |-> FALSE, text |-> text]
ErrorDict(text) == [dict |-> TRUE, text |-> text]

ErrorValues == {ErrorString(""), ErrorString("oops"), ErrorDict("Wrong from_date format")}

CodeValues == {"", "UnknownError", "not_authenticated", "some_code"}

MessageValues == {"Uchetnye dannye ne byli predostavleny."}

Dict(keys, homeworks, current_date, code, error, message) ==
    [shape |-> "dict",
     keys |-> keys,
     homeworks |-> IF "homeworks" \in keys THEN homeworks ELSE NotAList,
     current_date |-> IF "current_date" \in keys THEN current_date ELSE NoDate,
     code |-> IF "code" \in keys THEN code ELSE None,
     error |-> IF "error" \in keys THEN error ELSE ErrorString(None),
     message |-> IF "message" \in keys THEN message ELSE None]

\* A body that is JSON but not an object, and a body that is not JSON.
ListBody == [Dict({}, NotAList, NoDate, None, ErrorString(None), None) EXCEPT !.shape = "list"]
InvalidBody == [Dict({}, NotAList, NoDate, None, ErrorString(None), None) EXCEPT !.shape = "invalid"]

\* Bodies with the documented keys only.
PlainBodies ==
    {Dict(keys, homeworks, current_date, None, ErrorString(None), None) :
        keys \in SUBSET {"homeworks", "current_date"},
        homeworks \in HomeworksValues,
        current_date \in Dates}

\* Bodies reporting a failure of the server.
FailureBodies ==
    {Dict(keys, NotAList, NoDate, code, error, message) :
        keys \in (SUBSET {"code", "error", "message"}) \ {{}},
        code \in CodeValues,
        error \in ErrorValues,
        message \in MessageValues}

\* A well-formed answer that carries one more key.
MixedBodies ==
    {Dict({"homeworks", "current_date", key},
          [list |-> TRUE, items |-> <<Homework(HomeworkKeys, "reviewing", "HW1")>>],
          current_date, code, ErrorString("oops"), "note") :
        key \in {"code", "error", "message"},
        current_date \in Dates,
        code \in {"", "some_code"}}

Bodies ==
    Enumerated(PlainBodies \cup FailureBodies \cup MixedBodies \cup {ListBody, InvalidBody})

\* What requests.get does: it raises RequestException, or it returns a response.
Responses ==
    Enumerated(
    {[transport |-> FALSE, status_code |-> 0, body |-> InvalidBody]}
    \cup {[transport |-> TRUE, status_code |-> 200, body |-> b] : b \in Bodies}
    \cup {[transport |-> TRUE, status_code |-> 401, body |-> b] :
            b \in {InvalidBody,
                   Dict({"code", "message"}, NotAList, NoDate, "not_authenticated",
                        ErrorString(None), "Uchetnye dannye ne byli predostavleny."),
                   Dict({"homeworks", "current_date"},
                        [list |-> TRUE, items |-> <<>>], 0, None, ErrorString(None), None)}})

\* The responses the loop is run against: one or more for every way a cycle
\* can go (each failure of the fetch, each shape of the body, each record).
LoopHomeworks ==
    Enumerated(
    {Homework(HomeworkKeys, status, "HW1") : status \in StatusValues}
    \cup {Homework({"status"}, "approved", "HW1"),
          Homework({"homework_name"}, "approved", "HW1"),
          Homework({}, "approved", "HW1")})

LoopLists ==
    Enumerated(
    {<<>>, <<Homework(HomeworkKeys, "rejected", "HW1"), OlderHomework>>}
    \cup {<<h>> : h \in LoopHomeworks})

LoopBodies ==
    Enumerated(
    {Dict(keys, homeworks, current_date, None, ErrorString(None), None) :
        keys \in SUBSET {"homeworks", "current_date"},
        homeworks \in {NotAList} \cup {[list |-> TRUE, items |-> l] : l \in LoopLists},
        current_date \in Dates}
    \cup {ListBody, InvalidBody,
          Dict({"code"}, NotAList, NoDate, "some_code", ErrorString(None), None)})

LoopResponses ==
    Enumerated(
    {[transport |-> FALSE, status_code |-> 0, body |-> InvalidBody],
     [transport |-> TRUE, status_code |-> 401, body |-> InvalidBody]}
    \cup {[transport |-> TRUE, status_code |-> 200, body |-> b] : b \in LoopBodies})

FairResponses ==
    Enumerated(
    {[transport |-> FALSE, status_code |-> 0, body |-> InvalidBody],
     [transport |-> TRUE, status_code |-> 401, body |-> InvalidBody]}
    \cup {[transport |-> TRUE, status_code |-> 200, body |-> b] :
            b \in {ListBody,
                   Dict({"current_date"}, NotAList, 0, None, ErrorString(None), None),
                   Dict({"homeworks"}, [list |-> TRUE, items |-> <<>>], NoDate,
                        None, ErrorString(None), None)}
                  \cup {Dict({"homeworks", "current_date"},
                              [list |-> TRUE,
                               items |-> <<Homework(HomeworkKeys, status, "HW1")>>],
                              MaxDate, None, ErrorString(None), None) :
                            status \in {"reviewing", "approved", "unknown_code"}}})

Has(dict, key) == key \in dict.keys

\* dict.get('code'), and whether Python takes it as true.
GetCode(body) == IF Has(body, "code") THEN body.code ELSE None

\* bool(dict.get('error')): a missing key and an empty string are false.
ErrorTruthy(body) == Has(body, "error") /\ (body.error.dict \/ body.error.text # "")

\* str(dict.get('error')) as str.format renders it.
ErrorRendered(body) ==
    IF ~Has(body, "error") THEN "None"
    ELSE IF body.error.dict THEN "{'error': '" \o body.error.text \o "'}"
    ELSE body.error.text

(***************************************************************************)
(* get_api_answer(timestamp): the exception it raises, or the dict it      *)
(* returns.                                                                *)
(***************************************************************************)
Returned(value) == [exc |-> NoException, value |-> value]
Raised(cls, text) == [exc |-> Raise(cls, text), value |-> InvalidBody]

\* The lookups response_dict['error']['error'] of the UnknownError branch.
UnknownErrorBranch(body, status_code, headers, timestamp) ==
    IF ~Has(body, "error") THEN Raised("KeyError", KeyErrorText("error"))
    ELSE IF ~body.error.dict THEN Raised("TypeError", "string indices must be integers")
    ELSE Raised("TypeError",
                API_ERROR_MESSAGE(body.error.text, status_code, headers, timestamp))

\* The lookup response_dict['message'] of the not_authenticated branch.
NotAuthenticatedBranch(body, status_code, headers, timestamp) ==
    IF ~Has(body, "message") THEN Raised("KeyError", KeyErrorText("message"))
    ELSE Raised("AuthenticationError",
                API_ERROR_MESSAGE(body.message, status_code, headers, timestamp))

\* As DecodeBody, with only the code key deciding that the server reports an error.
DecodeBody_code_only(body, status_code, headers, timestamp) ==
    IF body.shape = "invalid"
    THEN Raised("JSONDecodeError", "Expecting value: line 1 column 1 (char 0)")
    ELSE IF body.shape # "dict"
    THEN Raised("AttributeError", "'list' object has no attribute 'get'")
    ELSE IF Truthy(GetCode(body))
    THEN IF GetCode(body) = "UnknownError"
         THEN UnknownErrorBranch(body, status_code, headers, timestamp)
         ELSE IF GetCode(body) = "not_authenticated"
         THEN NotAuthenticatedBranch(body, status_code, headers, timestamp)
         ELSE Raised("ValueError",
                     API_ERROR_MESSAGE(ErrorRendered(body), status_code, headers, timestamp))
    ELSE Returned(body)

\* Lines 102-133: response.json() and the inspection of the decoded body.
DecodeBody(body, status_code, headers, timestamp) ==
    IF body.shape = "invalid"
    THEN Raised("JSONDecodeError", "Expecting value: line 1 column 1 (char 0)")
    ELSE IF body.shape # "dict"
    THEN Raised("AttributeError", "'list' object has no attribute 'get'")
    ELSE IF Truthy(GetCode(body)) \/ ErrorTruthy(body)
    THEN IF GetCode(body) = "UnknownError"
         THEN UnknownErrorBranch(body, status_code, headers, timestamp)
         ELSE IF GetCode(body) = "not_authenticated"
         THEN NotAuthenticatedBranch(body, status_code, headers, timestamp)
         ELSE Raised("ValueError",
                     API_ERROR_MESSAGE(ErrorRendered(body), status_code, headers, timestamp))
    ELSE Returned(body)

get_api_answer(response, headers, timestamp) ==
    IF ~response.transport
    THEN Raised("ApiError",
                API_ERROR_MESSAGE("Connection aborted", "unknown", headers, timestamp))
    ELSE IF response.status_code # 200
    THEN Raised("HTTPError",
                API_ERROR_MESSAGE("HTTPError", ToString(response.status_code),
                                  headers, timestamp))
    ELSE DecodeBody(response.body, ToString(response.status_code), headers, timestamp)

(***************************************************************************)
(* check_response(response): the exception it raises, if any.              *)
(***************************************************************************)
\* As check_response, with current_date required next to homeworks.
check_response_requires_current_date(body) ==
    IF body.shape # "dict"
    THEN Raise("TypeError", "Ozhidalsya slovar, poluchen <class 'list'>")
    ELSE IF ~Has(body, "homeworks") \/ ~Has(body, "current_date")
    THEN Raise("KeyError",
               KeyErrorText("Otsutstvuyut ozhidaemye klyuchi v otvete API: \"homeworks\""))
    ELSE IF ~body.homeworks.list
    THEN Raise("TypeError", "Ozhidalsya spisok, poluchen: <class 'str'>")
    ELSE NoException

\* As check_response, with an empty list of homeworks refused as well.
check_response_rejects_empty(body) ==
    IF body.shape # "dict"
    THEN Raise("TypeError", "Ozhidalsya slovar, poluchen <class 'list'>")
    ELSE IF ~Has(body, "homeworks")
    THEN Raise("KeyError",
               KeyErrorText("Otsutstvuyut ozhidaemye klyuchi v otvete API: \"homeworks\""))
    ELSE IF ~body.homeworks.list
    THEN Raise("TypeError", "Ozhidalsya spisok, poluchen: <class 'str'>")
    ELSE IF body.homeworks.items = <<>>
    THEN Raise("NoNewStatus", "Otsutstvie v otvete novyh statusov.")
    ELSE NoException

check_response(body) ==
    IF body.shape # "dict"
    THEN Raise("TypeError", "Ozhidalsya slovar, poluchen <class 'list'>")
    ELSE IF ~Has(body, "homeworks")
    THEN Raise("KeyError",
               KeyErrorText("Otsutstvuyut ozhidaemye klyuchi v otvete API: \"homeworks\""))
    ELSE IF ~body.homeworks.list
    THEN Raise("TypeError", "Ozhidalsya spisok, poluchen: <class 'str'>")
    ELSE NoException

(***************************************************************************)
(* parse_status(homework): the exception it raises, or the text it returns.*)
(***************************************************************************)
\* As parse_status, without the test for the homework_name key.
parse_status_skips_name_check(homework) ==
    IF ~Has(homework, "status")
    THEN [exc |-> Raise("KeyError", KeyErrorText("Net ozhidaemogo klyucha: status")),
          value |-> None]
    ELSE IF homework.status \notin VerdictCodes
    THEN [exc |-> Raise("ValueError",
                        "Poluchen neozhidannyy status: " \o homework.status),
          value |-> None]
    ELSE [exc |-> NoException,
          value |-> STATUS_CHANGE_MESSAGE(homework.homework_name,
                                          HOMEWORK_VERDICTS[homework.status])]

parse_status(homework) ==
    IF ~Has(homework, "status")
    THEN [exc |-> Raise("KeyError", KeyErrorText("Net ozhidaemogo klyucha: status")),
          value |-> None]
    ELSE IF ~Has(homework, "homework_name")
    THEN [exc |-> Raise("KeyError", KeyErrorText("Net ozhidaemogo klyucha: homework_name")),
          value |-> None]
    ELSE IF homework.status \notin VerdictCodes
    THEN [exc |-> Raise("ValueError",
                        "Poluchen neozhidannyy status: " \o homework.status),
          value |-> None]
    ELSE [exc |-> NoException,
          value |-> STATUS_CHANGE_MESSAGE(homework.homework_name,
                                          HOMEWORK_VERDICTS[homework.status])]

\* bool(response.get('homeworks')): the key is present and the list is not empty.
HomeworksTruthy(body) == Has(body, "homeworks") /\ body.homeworks.items # <<>>

(***************************************************************************)
(* check_tokens(): the exception it raises, if any.                        *)
(***************************************************************************)
\* As check_tokens, but the chat identifier is left out of the dict it walks.
check_tokens_skips_chat_id(environ) ==
    LET missing_tokens ==
            {token \in TokenNames \ {TELEGRAM_CHAT_ID_NAME} : ~Truthy(environ[token])}
    IN  IF missing_tokens # {}
        THEN Raise("ValueError", "Otsutstvuyut obyazatelnye peremennye okruzheniya")
        ELSE NoException

check_tokens(environ) ==
    LET missing_tokens == {token \in TokenNames : ~Truthy(environ[token])}
    IN  IF missing_tokens # {}
        THEN Raise("ValueError", "Otsutstvuyut obyazatelnye peremennye okruzheniya")
        ELSE NoException

(***************************************************************************)
(* send_message(bot, message): bot.send_message either delivers the text   *)
(* or raises; the except clause logs what it raises and swallows it.       *)
(***************************************************************************)
\* As send_message, without the try/except around bot.send_message.
send_message_unguarded(transport_ok) ==
    [delivered |-> transport_ok,
     exc |-> IF transport_ok THEN NoException
             ELSE Raise("TelegramError", "Timed out")]

send_message(transport_ok) ==
    [delivered |-> transport_ok, exc |-> NoException]

\* The API answered 200 with a dict that reports no error and whose homeworks
\* value is the empty list.
EmptyAnswer(response) ==
    /\ response.transport
    /\ response.status_code = 200
    /\ response.body.shape = "dict"
    /\ response.body.keys \cap {"code", "error"} = {}
    /\ "homeworks" \in response.body.keys
    /\ response.body.homeworks.list
    /\ response.body.homeworks.items = <<>>

\* The text the except clauses of main() hand to send_message.
ErrorReport(exc) ==
    IF IsListed(exc.cls) THEN exc.text ELSE PROGRAM_FAILURE_MESSAGE(exc.text)

\* Lines 174-177 of main(): fetch, validate, extract.
TryBody(response, headers, timestamp) ==
    LET answer == get_api_answer(response, headers, timestamp)
        checked == IF answer.exc.raised THEN answer.exc ELSE check_response(answer.value)
        has_homeworks == ~checked.raised /\ HomeworksTruthy(answer.value)
        parsed == IF has_homeworks
                  THEN parse_status(answer.value.homeworks.items[1])
                  ELSE [exc |-> NoException, value |-> None]
    IN  [exc |-> IF checked.raised THEN checked ELSE parsed.exc,
         has_homeworks |-> has_homeworks,
         message |-> parsed.value,
         has_date |-> ~answer.exc.raised /\ Has(answer.value, "current_date"),
         current_date |-> IF answer.exc.raised THEN NoDate ELSE answer.value.current_date]

\* As interpreter_exit, had the startup check ended the process with sys.exit(0).
interpreter_exit_clean(exc) == <<0>>

\* Line 213: the exit status of the interpreter when main() ends; an exception
\* that nothing caught gives a traceback and status 1.
interpreter_exit(exc) == IF exc.raised THEN <<1>> ELSE <<0>>

\* As time_sleep, when the call is not made.
time_sleep_skipped(slept, secs) == slept

\* time.sleep(secs) seen from the clock that measures the time slept.
time_sleep(slept, secs) == slept + secs

(***************************************************************************)
(* State.                                                                  *)
(*   environ       the three environment variables                         *)
(*   pc            position in main()                                      *)
(*   exit_status   <<>> while the process runs, <<n>> once it exited       *)
(*   timestamp, last_message, message, response_date   locals of main();   *)
(*                 response_date is response['current_date'] or NoDate     *)
(*   propagating   an exception is in flight while finally runs            *)
(*   call          the latest direct call of one of the functions          *)
(* History, for stating the properties:                                    *)
(*   last_sent     text of the latest send that was delivered              *)
(*   from_date     from_date of the latest fetch                           *)
(*   max_from_date largest from_date of the fetches before the latest      *)
(*   fetches       number of fetches so far, counted up to 2               *)
(*   slept         seconds slept since the latest fetch                    *)
(*   gap           seconds slept between the two latest fetches            *)
(*   cycle         what the current cycle did, and the one before it       *)
(***************************************************************************)
VARIABLES environ, pc, exit_status, timestamp, last_message, message,
          response_date, propagating, call, last_sent, from_date, max_from_date,
          fetches, slept, gap, cycle

vars == <<environ, pc, exit_status, timestamp, last_message, message,
          response_date, propagating, call, last_sent, from_date, max_from_date,
          fetches, slept, gap, cycle>>

Max(a, b) == IF a >= b THEN a ELSE b
Min(a, b) == IF a <= b THEN a ELSE b

\* outcome: "error", "ok" (a record was extracted) or "empty"; sends, delivered:
\* the send attempts of the cycle; repeats: the cycle produced the text of the
\* cycle before it; resend: the text equals the latest delivered text;
\* empty_list: the response was an answer with an empty list of homeworks;
\* prev_*: the same facts about the cycle before.
NoCycle ==
    [outcome |-> "none", sends |-> 0, delivered |-> FALSE, empty_list |-> FALSE,
     repeats |-> FALSE, resend |-> FALSE,
     prev_outcome |-> "none", prev_sends |-> 0, prev_delivered |-> FALSE]

NoCall == [function |-> "none"]

Init ==
    /\ environ \in [TokenNames -> EnvValues]
    /\ pc = "start"
    /\ exit_status = <<>>
    /\ timestamp = NoDate
    /\ last_message = None
    /\ message = None
    /\ response_date = NoDate
    /\ propagating = FALSE
    /\ call = NoCall
    /\ last_sent = None
    /\ from_date = NoDate
    /\ max_from_date = NoDate
    /\ fetches = 0
    /\ slept = 0
    /\ gap = 0
    /\ cycle = NoCycle

\* Lines 168-171: check_tokens() raises out of main(), or the loop is entered.
Startup ==
    /\ pc = "start"
    /\ IF check_tokens(environ).raised
       THEN /\ pc' = "exited"
            /\ exit_status' = interpreter_exit(check_tokens(environ))
            /\ UNCHANGED timestamp
       ELSE /\ pc' = "poll"
            /\ \E now \in Dates : timestamp' = now
            /\ UNCHANGED exit_status
    /\ UNCHANGED <<environ, last_message, message, response_date, propagating, call,
                   last_sent, from_date, max_from_date, fetches, slept, gap, cycle>>

\* Lines 174-178 and 185-200: one fetch, up to the decision whether to send.
PollFrom(responses) ==
    /\ pc = "poll"
    /\ \E response \in responses :
       \E done \in {TryBody(response, HEADERS(environ[PRACTICUM_TOKEN_NAME]), timestamp)} :
        LET text == IF done.exc.raised THEN ErrorReport(done.exc) ELSE done.message
            outcome == IF done.exc.raised THEN "error"
                       ELSE IF done.has_homeworks THEN "ok" ELSE "empty"
        IN  /\ message' = text
            /\ response_date' = done.current_date
            /\ pc' = IF outcome = "empty" \/ last_message = text THEN "sleep"
                     ELSE IF outcome = "error" THEN "send_error"
                     ELSE "send_status"
            /\ cycle' = [outcome |-> outcome,
                         sends |-> 0,
                         delivered |-> FALSE,
                         empty_list |-> EmptyAnswer(response),
                         repeats |-> outcome # "empty" /\ cycle.outcome = outcome
                                     /\ text = message,
                         resend |-> outcome # "empty" /\ text = last_sent,
                         prev_outcome |-> cycle.outcome,
                         prev_sends |-> cycle.sends,
                         prev_delivered |-> cycle.delivered]
    /\ from_date' = timestamp
    /\ max_from_date' = Max(max_from_date, from_date)
    /\ fetches' = Min(fetches + 1, 2)
    /\ gap' = slept
    /\ slept' = 0
    /\ UNCHANGED <<environ, exit_status, timestamp, last_message, propagating, call,
                   last_sent>>

\* Lines 179-181: send the status text, then record it and move the cursor.
SendStatus ==
    /\ pc = "send_status"
    /\ \E transport_ok \in BOOLEAN :
        LET sent == send_message(transport_ok)
        IN  /\ cycle' = [cycle EXCEPT !.sends = @ + 1, !.delivered = sent.delivered]
            /\ last_sent' = IF sent.delivered THEN message ELSE last_sent
            /\ IF sent.exc.raised
               THEN \* the exception leaves the try body and reaches the except clauses
                    /\ message' = ErrorReport(sent.exc)
                    /\ pc' = IF last_message = message' THEN "sleep" ELSE "send_error"
                    /\ UNCHANGED <<last_message, timestamp>>
               ELSE /\ last_message' = message
                    /\ timestamp' = IF response_date = NoDate THEN timestamp
                                    ELSE response_date
                    /\ pc' = "sleep"
                    /\ UNCHANGED message
    /\ UNCHANGED <<environ, exit_status, response_date, propagating, call,
                   from_date, max_from_date, fetches, slept, gap>>

\* As SendError, with the cursor moved to the response's current_date in the
\* except clause as well.
SendError_moves_cursor ==
    /\ pc = "send_error"
    /\ \E transport_ok \in BOOLEAN :
        LET sent == send_message(transport_ok)
        IN  /\ cycle' = [cycle EXCEPT !.sends = @ + 1, !.delivered = sent.delivered]
            /\ last_sent' = IF sent.delivered THEN message ELSE last_sent
            /\ propagating' = sent.exc.raised
    /\ timestamp' = IF response_date = NoDate THEN timestamp ELSE response_date
    /\ pc' = "sleep"
    /\ UNCHANGED <<environ, exit_status, last_message, message, response_date,
                   call, from_date, max_from_date, fetches, gap, slept>>

\* Lines 195-196 and 200-201: send the error report from inside the except clause.
SendError ==
    /\ pc = "send_error"
    /\ \E transport_ok \in BOOLEAN :
        LET sent == send_message(transport_ok)
        IN  /\ cycle' = [cycle EXCEPT !.sends = @ + 1, !.delivered = sent.delivered]
            /\ last_sent' = IF sent.delivered THEN message ELSE last_sent
            /\ propagating' = sent.exc.raised
    /\ pc' = "sleep"
    /\ UNCHANGED <<environ, exit_status, timestamp, last_message, message, response_date,
                   call, from_date, max_from_date, fetches, gap, slept>>

\* Lines 202-203 and 172: finally sleeps; then the loop goes round, unless an
\* exception is leaving main().
Sleep ==
    /\ pc = "sleep"
    /\ slept' = time_sleep(slept, RETRY_PERIOD)
    /\ IF propagating
       THEN pc' = "crashed" /\ exit_status' = <<1>>
       ELSE pc' = "poll" /\ UNCHANGED exit_status
    /\ UNCHANGED <<environ, timestamp, last_message, message, response_date, propagating,
                   call, last_sent, from_date, max_from_date, fetches, gap, cycle>>

Poll == PollFrom(LoopResponses)

Next == Startup \/ Poll \/ SendStatus \/ SendError \/ Sleep

Spec == Init /\ [][Next]_vars

\* The loop against one response for each stage a cycle can fail at, a new
\* status, a changed status and an empty list.
PollFair == PollFrom(FairResponses)

FairNext == Startup \/ PollFair \/ SendStatus \/ SendError \/ Sleep

\* One thread runs main(): a step that can be taken is taken.
FairSpec == Init /\ [][FairNext]_vars /\ WF_vars(FairNext)

(***************************************************************************)
(* Direct calls of get_api_answer, as a test of the function makes them.   *)
(***************************************************************************)
GetApiAnswerCall ==
    /\ \E response \in Responses, now \in Dates :
        call' = [function |-> "get_api_answer",
                 response |-> response,
                 timestamp |-> now,
                 result |-> get_api_answer(response,
                                           HEADERS(environ[PRACTICUM_TOKEN_NAME]), now)]
    /\ UNCHANGED <<environ, pc, exit_status, timestamp, last_message, message,
                   response_date, propagating, last_sent, from_date, max_from_date,
                   fetches, slept, gap, cycle>>

\* check_response on every value response.json() can give.
CheckResponseCall ==
    /\ \E body \in Bodies \ {InvalidBody} :
        call' = [function |-> "check_response",
                 body |-> body,
                 result |-> check_response(body)]
    /\ UNCHANGED <<environ, pc, exit_status, timestamp, last_message, message,
                   response_date, propagating, last_sent, from_date, max_from_date,
                   fetches, slept, gap, cycle>>

\* parse_status on every homework record, one call after another.
ParseStatusCall ==
    /\ \E homework \in Homeworks :
        call' = [function |-> "parse_status",
                 homework |-> homework,
                 result |-> parse_status(homework)]
    /\ UNCHANGED <<environ, pc, exit_status, timestamp, last_message, message,
                   response_date, propagating, last_sent, from_date, max_from_date,
                   fetches, slept, gap, cycle>>

ApiNext == GetApiAnswerCall \/ CheckResponseCall \/ ParseStatusCall

ApiSpec == Init /\ [][ApiNext]_vars

\* src/exceptions.py: the classes the module exceptions defines.
ExceptionsModule ==
    {"AuthenticationError", "EndpointUnavailableError", "EndpointError",
     "StatusError", "NoNewStatus"}

\* Line 11: the names homework.py takes from the module exceptions.
ImportedNames == {"AuthenticationError", "ApiError"}

\* homework.py is about to be executed, as the script or by an import of it.
LoadInit ==
    /\ environ \in [TokenNames -> EnvValues]
    /\ pc \in {"run_script", "import_module"}
    /\ exit_status = <<>>
    /\ timestamp = NoDate
    /\ last_message = None
    /\ message = None
    /\ response_date = NoDate
    /\ propagating = FALSE
    /\ call = NoCall
    /\ last_sent = None
    /\ from_date = NoDate
    /\ max_from_date = NoDate
    /\ fetches = 0
    /\ slept = 0
    /\ gap = 0
    /\ cycle = NoCycle

\* Lines 1-11: the import statements at the top of homework.py. A name that
\* exceptions.py does not define makes line 11 raise ImportError, which ends a
\* script run and propagates to the importer otherwise.
LoadModule ==
    /\ pc \in {"run_script", "import_module"}
    /\ IF ImportedNames \subseteq ExceptionsModule
       THEN /\ pc' = IF pc = "run_script" THEN "start" ELSE "imported"
            /\ UNCHANGED <<exit_status, propagating>>
       ELSE /\ pc' = "import_error"
            /\ propagating' = TRUE
            /\ exit_status' =
                 IF pc = "run_script"
                 THEN interpreter_exit(Raise("ImportError",
                          "cannot import name 'ApiError' from 'exceptions'"))
                 ELSE <<>>
    /\ UNCHANGED <<environ, timestamp, last_message, message, response_date,
                   call, last_sent, from_date, max_from_date, fetches, slept,
                   gap, cycle>>

LoadNext == LoadModule

LoadSpec == LoadInit /\ [][LoadNext]_vars

(***************************************************************************)
(* Properties.                                                             *)
(***************************************************************************)
InLoop == pc \in {"poll", "send_status", "send_error", "sleep"}

\* The cycle has run to its end: only the sleep is left.
CycleDone == pc = "sleep"

\* C1: when the send of a text fails and the next cycle produces the same
\* text, the text is sent again: the two cycles make two send attempts.
C1_RetryAfterFailedSend ==
    (CycleDone /\ cycle.repeats /\ cycle.prev_sends = 1 /\ ~cycle.prev_delivered)
        => cycle.prev_sends + cycle.sends = 2

\* C2: when the report of an error was delivered and the next cycle fails with
\* the same text, the second cycle sends nothing.
C2_RepeatedErrorSuppressed ==
    (CycleDone /\ cycle.outcome = "error" /\ cycle.repeats
        /\ cycle.prev_sends = 1 /\ cycle.prev_delivered)
        => cycle.sends = 0

\* C3: at the end of every cycle that raised no error and whose response has a
\* current_date, the cursor equals that current_date, whether the cycle sent a
\* notification, met a duplicate text or an empty list of homeworks.
C3_CursorFollowsCurrentDate ==
    (CycleDone /\ cycle.outcome \in {"ok", "empty"} /\ response_date # NoDate)
        => timestamp = response_date

\* C4: the from_date of a fetch is never smaller than the from_date of an
\* earlier fetch.
C4_CursorNeverRegresses ==
    fetches = 2 => from_date >= max_from_date

\* C5: the last-notified message is the text of the latest send that was
\* delivered, or None when nothing was delivered yet.
C5_LastMessageIsLastDelivered ==
    last_message = last_sent

\* C6: a cycle that produces the status text of the latest delivered send,
\* nothing else having been delivered since, sends nothing.
C6_DuplicateStatusSuppressed ==
    (cycle.outcome = "ok" /\ cycle.resend) => cycle.sends = 0

\* The startup check passes (environ never changes).
AllCredentials == \A token \in TokenNames : Truthy(environ[token])

\* The state right after a fetch was issued.
FetchIssued == pc \in {"send_status", "send_error", "sleep"} /\ slept = 0

\* C7: the process never crashes in the loop, and once the loop is entered
\* fetches are issued again and again: after every cycle, however it went,
\* comes a next fetch.
C7_LoopNeverStops ==
    /\ [](pc # "crashed")
    /\ AllCredentials => []<>FetchIssued

\* A cycle failed, the send of its error report failed too, and the loop is
\* back at the fetch.
C7_Witness ==
    /\ pc = "poll"
    /\ cycle.outcome = "error"
    /\ cycle.sends = 1
    /\ ~cycle.delivered

\* C8: exactly one sleep of RETRY_PERIOD seconds lies between two consecutive
\* fetches, and one has been slept whenever the loop is about to fetch again.
C8_OneSleepBetweenFetches ==
    /\ fetches = 2 => gap = RETRY_PERIOD
    /\ (pc = "poll" /\ fetches >= 1) => slept = RETRY_PERIOD
    /\ (InLoop /\ pc # "poll") => slept = 0

\* A second fetch was made after a cycle that ended in an error.
C8_Witness ==
    /\ fetches = 2
    /\ cycle.prev_outcome = "error"
    /\ gap = RETRY_PERIOD

\* C9: with three non-empty credentials the startup enters the loop; with one
\* missing or empty the process ends before the loop: no fetch, no send, no sleep.
C9_StartupCheck ==
    /\ (pc # "start" /\ AllCredentials) => InLoop
    /\ ~AllCredentials =>
        /\ pc \in {"start", "exited"}
        /\ fetches = 0
        /\ slept = 0
        /\ cycle = NoCycle
        /\ last_sent = None

\* The process ended at startup because only the chat identifier is empty.
C9_Witness ==
    /\ pc = "exited"
    /\ environ[PRACTICUM_TOKEN_NAME] = "tok"
    /\ environ[TELEGRAM_TOKEN_NAME] = "tok"
    /\ environ[TELEGRAM_CHAT_ID_NAME] = ""

\* The exception classes get_api_answer raises for an error the server reports.
ServerReportedClasses == {"TypeError", "AuthenticationError", "ValueError"}

\* The decoded body of the response is a dict with a code or an error key.
HasErrorKey(response) ==
    /\ response.transport
    /\ response.body.shape = "dict"
    /\ response.body.keys \cap {"code", "error"} # {}

\* C10: the error keys are looked at before the status code: a response with
\* a status other than 200 whose body has a code or error key is reported as a
\* server-reported error, not as a bad status.
C10_ErrorKeysBeforeStatus ==
    (/\ call.function = "get_api_answer"
     /\ call.response.status_code # 200
     /\ HasErrorKey(call.response))
        => call.result.exc.cls \in ServerReportedClasses

\* C11 as claimed: with a credential missing the process ends with a
\* non-error exit status.
C11_CleanExitOnMissingCredentials ==
    pc = "exited" => exit_status = <<0>>

\* C11 as amended: with a credential missing main() ends by the ValueError of
\* check_tokens, which nothing catches: the exit status is the error status 1.
C11_ErrorExitOnMissingCredentials ==
    /\ pc = "exited" => (exit_status = <<1>> /\ check_tokens(environ).cls = "ValueError")
    /\ (~AllCredentials /\ pc # "start") => pc = "exited"
    /\ InLoop => exit_status = <<>>

\* The process ended at startup because the API token is not set at all.
C11_Witness ==
    /\ pc = "exited"
    /\ environ[PRACTICUM_TOKEN_NAME] = None
    /\ exit_status # <<>>

\* C12: a cycle that ends in an error leaves the cursor as it was: during the
\* cycle and at the next fetch the cursor is the from_date the failed fetch used.
C12_ErrorKeepsCursor ==
    (InLoop /\ cycle.outcome = "error") => timestamp = from_date

\* A cycle failed after one that had extracted a record, its report was
\* delivered, and the loop is back at the fetch.
C12_Witness ==
    /\ pc = "poll"
    /\ cycle.outcome = "error"
    /\ cycle.prev_outcome = "ok"
    /\ cycle.delivered
    /\ response_date # NoDate
    /\ response_date # timestamp

\* C13: a failed send stays inside send_message: no exception is in flight
\* after it, the cycle does not turn into an error cycle, and no cycle makes
\* more than one send attempt.
C13_SendFailureStaysInNotifier ==
    /\ cycle.sends <= 1
    /\ ~propagating
    /\ pc # "crashed"
    /\ (cycle.outcome = "ok" /\ cycle.sends = 1) => pc \in {"sleep", "poll"}

\* The send of a status text failed and the cycle went on to its sleep.
C13_Witness ==
    /\ pc = "sleep"
    /\ cycle.outcome = "ok"
    /\ cycle.sends = 1
    /\ ~cycle.delivered

\* str.startswith
StartsWith(text, prefix) ==
    Len(text) >= Len(prefix) /\ SubSeq(text, 1, Len(prefix)) = prefix

\* C14: every error of the client, the validator or the extractor is handed to
\* the notifier, and the text handed over starts with the program-failure
\* prefix (the claim: it is the prefix followed by the error's text).
C14_ErrorReportsCarryPrefix ==
    /\ (CycleDone /\ cycle.outcome = "error") => cycle.sends = 1
    /\ (cycle.outcome = "error" /\ cycle.sends = 1)
            => StartsWith(message, PROGRAM_FAILURE_MESSAGE(""))

\* C15: a cycle whose response is an answer with an empty list of homeworks
\* raises nothing, extracts nothing and sends nothing, and no step of it
\* changes the last-notified message.
C15_EmptyListIsQuiet ==
    /\ [](cycle.empty_list =>
            /\ cycle.outcome = "empty"
            /\ cycle.sends = 0
            /\ pc \in {"sleep", "poll"})
    /\ [][cycle'.empty_list =>
            (last_message' = last_message /\ last_sent' = last_sent)]_vars

\* An empty list came after a status text had been sent.
C15_Witness ==
    /\ pc = "sleep"
    /\ cycle.empty_list
    /\ cycle.prev_outcome = "ok"
    /\ last_message # None

AllowedKeys == {"homeworks", "current_date"}

\* get_api_answer was called and the API answered 200 with a JSON object.
AnsweredWithDict ==
    /\ call.function = "get_api_answer"
    /\ call.response.transport
    /\ call.response.status_code = 200
    /\ call.response.body.shape = "dict"

\* C16 as claimed: a body with a key outside {homeworks, current_date} makes
\* the fetch fail with a server-reported error; a body with allowed keys only
\* is returned unchanged.
C16_OnlyAllowedKeysReturned ==
    AnsweredWithDict =>
        IF call.response.body.keys \subseteq AllowedKeys
        THEN /\ ~call.result.exc.raised
             /\ call.result.value = call.response.body
        ELSE /\ call.result.exc.raised
             /\ call.result.exc.cls \in ServerReportedClasses

\* The body has a non-empty code or a non-empty error value.
ReportsError(body) ==
    \/ "code" \in body.keys /\ body.code # ""
    \/ "error" \in body.keys /\ (body.error.dict \/ body.error.text # "")

\* C16 as amended: the fetch raises instead of returning exactly when the value
\* under code or error is true for Python; every other body, whatever other
\* keys it has, is returned unchanged.
C16_TruthyErrorKeysRaise ==
    AnsweredWithDict =>
        IF ReportsError(call.response.body)
        THEN /\ call.result.exc.raised
             /\ call.result.exc.cls \in ServerReportedClasses \cup {"KeyError"}
        ELSE /\ ~call.result.exc.raised
             /\ call.result.value = call.response.body

\* A well-formed answer with a message key next to the documented keys was
\* returned as it is.
C16_Witness ==
    /\ AnsweredWithDict
    /\ call.response.body.keys = {"homeworks", "current_date", "message"}
    /\ call.result.value = call.response.body

\* C18: check_response refuses, in this order, a body that is not a dict
\* (TypeError), a dict without homeworks (KeyError), a homeworks value that is
\* not a list (TypeError), and accepts every other body, with or without
\* current_date, with an empty list or not.
C18_ValidatorClassifies ==
    call.function = "check_response" =>
        IF call.body.shape # "dict" THEN call.result.cls = "TypeError"
        ELSE IF "homeworks" \notin call.body.keys THEN call.result.cls = "KeyError"
        ELSE IF ~call.body.homeworks.list THEN call.result.cls = "TypeError"
        ELSE ~call.result.raised

\* A dict with an empty list of homeworks and no current_date was accepted.
C18_Witness ==
    /\ call.function = "check_response"
    /\ call.body.keys = {"homeworks"}
    /\ call.body.homeworks.list
    /\ call.body.homeworks.items = <<>>
    /\ ~call.result.raised

\* C19: parse_status raises KeyError for a record without status or without
\* homework_name, ValueError for a status that is no verdict code, and for
\* every other record returns the status-change text of its name and verdict,
\* whatever was parsed before.
C19_ExtractorIsTotal ==
    call.function = "parse_status" =>
        LET homework == call.homework
            result == call.result
        IN  /\ IF ~(HomeworkKeys \subseteq homework.keys)
               THEN result.exc.cls = "KeyError"
               ELSE IF homework.status \notin {"approved", "reviewing", "rejected"}
               THEN result.exc.cls = "ValueError"
               ELSE /\ ~result.exc.raised
                    /\ result.value = STATUS_CHANGE_MESSAGE(homework.homework_name,
                                           HOMEWORK_VERDICTS[homework.status])
            /\ homework = Homework(HomeworkKeys, "approved", "HW1") =>
                result.value = "Izmenilsya status proverki raboty \"HW1\". "
                               \o "Rabota proverena: revyueru vsyo ponravilos. Ura!"

\* A record with both keys and an unknown status was refused.
C19_Witness ==
    /\ call.function = "parse_status"
    /\ call.homework.keys = HomeworkKeys
    /\ call.homework.status = "unknown_code"
    /\ call.result.exc.cls = "ValueError"

\* C17: the class get_api_answer raises for a transport failure and main()
\* catches as a cycle error is bound when homework.py is loaded, so the loop
\* can be entered and the failure reported by the cycle's error handling.
C17_ConnectionFailureIsCycleError ==
    /\ pc # "import_error"
    /\ ~propagating

====
